---- MODULE Spec2Model ----
(***************************************************************************)
(* Model of the kmitlnetauth core: the connectivity/authentication control *)
(* loop (AuthClient::run_loop), the three portal operations it awaits      *)
(* (check_internet, heartbeat, login) and password resolution              *)
(* (Config::get_password over CredentialManager::get_password); beside it  *)
(* the dashboard, the start of main, and Config::load / Config::save as    *)
(* the tray and the service call them.                                     *)
(*                                                                         *)
(* run_loop is one async task.  Each action below is the code that runs    *)
(* between two suspension points (.await) of that task; pc names the       *)
(* suspension point the task is parked at.                                 *)
(***************************************************************************)
EXTENDS Integers, Sequences, FiniteSets, TLC

(***************************************************************************)
(* Bounds of the model.                                                    *)
(***************************************************************************)
\* Number of loop iterations explored.
MaxCycles == 5
\* Largest configured max_attempt explored (the field is a u32).
MaxAttemptBound == 2
\* Number of front-end commands and configuration-file edits explored.
MaxCommands == 2

(***************************************************************************)
(* Values.                                                                 *)
(***************************************************************************)
\* Option<String>
NoneOpt == [some |-> FALSE, val |-> ""]
Some(s) == [some |-> TRUE, val |-> s]

Usernames == {"", "alice"}
PlainPasswords == {NoneOpt, Some(""), Some("plain-pw")}
\* Values the secure store can hold: set_password is only called with a
\* non-empty password under a non-empty username (config.rs:76-78, 104-106).
StoredPasswords == {"ring-pw"}
KeyringFaults == {"none", "entry_new", "get_password"}
KeyringEntries ==
    {e \in [Usernames -> {NoneOpt} \cup {Some(p) : p \in StoredPasswords}] :
        e[""] = NoneOpt}

\* crate::error::Result
\* `status` is the HTTP status an error message quotes (0: none).
Ok(v) == [ok |-> TRUE, val |-> v, err |-> "", msg |-> "", status |-> 0]
Err(kind, msg) ==
    [ok |-> FALSE, val |-> "", err |-> kind, msg |-> msg, status |-> 0]
Pending == Err("pending", "")

(***************************************************************************)
(* Credential resolution.                                                  *)
(***************************************************************************)
\* credentials.rs:19-34.  Entry::new may fail, entry.get_password may fail
\* with NoEntry or with another keyring error; every failure is an Err.
CredentialManager_get_password(store, username) ==
    IF store.fault = "entry_new"
    THEN Err("Config", "Failed to create keyring entry")
    ELSE IF store.fault = "get_password"
    THEN Err("Config", "Failed to retrieve password from keyring")
    ELSE IF store.entries[username].some
    THEN Ok(store.entries[username].val)
    ELSE Err("Config", "Password not found in keyring")

Config_get_password_keyring_first(cfg, store) ==
    IF cfg.username # "" /\ CredentialManager_get_password(store, cfg.username).ok
    THEN CredentialManager_get_password(store, cfg.username).val
    ELSE IF cfg.password.some /\ cfg.password.val # ""
    THEN cfg.password.val
    ELSE ""

\* config.rs:123-137
Config_get_password(cfg, store) ==
    IF cfg.password.some /\ cfg.password.val # ""
    THEN cfg.password.val
    ELSE IF cfg.username # "" /\ CredentialManager_get_password(store, cfg.username).ok
    THEN CredentialManager_get_password(store, cfg.username).val
    ELSE ""

(***************************************************************************)
(* Configuration persistence: Config::load, Config::save and the migration *)
(* of the plaintext password into the secure store.                        *)
(***************************************************************************)
\* config.rs:29
DefaultInterval == 300
\* config.rs:30
DefaultMaxAttempt == 20

\* config.rs:23-34
Config_default ==
    [username |-> "", password |-> NoneOpt, ip_address |-> NoneOpt,
     interval |-> DefaultInterval, max_attempt |-> DefaultMaxAttempt,
     auto_login |-> TRUE]

\* Ways the secure store can fail: the three of the read path, and a store
\* that reads but refuses to write.
StoreFaults == KeyringFaults \cup {"set_password"}

\* credentials.rs:9-17
CredentialManager_set_password(store, username, password) ==
    IF store.fault = "entry_new"
    THEN [result |-> Err("Config", "Failed to create keyring entry"),
          store |-> store]
    ELSE IF store.fault = "set_password"
    THEN [result |-> Err("Config", "Failed to save password to keyring"),
          store |-> store]
    ELSE [result |-> Ok(""),
          store |-> [store EXCEPT !.entries[username] = Some(password)]]

\* The text of a numeric variable is a sequence of characters.
Digits == {"0", "1", "2", "3", "6"}
DigitValue(c) ==
    CASE c = "0" -> 0 [] c = "1" -> 1 [] c = "2" -> 2 [] c = "3" -> 3
      [] c = "6" -> 6

RECURSIVE DecimalValue(_)
DecimalValue(s) ==
    IF s = <<>> THEN 0
    ELSE 10 * DecimalValue(SubSeq(s, 1, Len(s) - 1)) + DigitValue(s[Len(s)])

\* str::parse::<u64>() and ::<u32>() (config.rs:57, 62): an optional "+",
\* then one or more digits and nothing else; blanks are not trimmed.  The
\* texts of the model are far below u32::MAX.
ParseUnsigned(s) ==
    LET d == IF s # <<>> /\ Head(s) = "+" THEN Tail(s) ELSE s
    IN  IF d # <<>> /\ \A i \in 1..Len(d) : d[i] \in Digits
        THEN [ok |-> TRUE, val |-> DecimalValue(d)]
        ELSE [ok |-> FALSE, val |-> 0]

\* str::parse::<bool>() (config.rs:67): exactly "true" or "false"
ParseBool(s) ==
    IF s = "true" THEN [ok |-> TRUE, val |-> TRUE]
    ELSE IF s = "false" THEN [ok |-> TRUE, val |-> FALSE]
    ELSE [ok |-> FALSE, val |-> FALSE]

OverrideParsed_file_wins(current, var, parsed) == current

\* config.rs:56-70: a variable that is set and parses replaces the field
OverrideParsed(current, var, parsed) ==
    IF var.some /\ parsed.ok THEN parsed.val ELSE current

\* config.rs:46-70
ApplyEnv(cfg, e) ==
    [username |-> IF e.username.some THEN e.username.val ELSE cfg.username,
     password |-> IF e.password.some THEN Some(e.password.val)
                  ELSE cfg.password,
     ip_address |-> IF e.ip_address.some THEN Some(e.ip_address.val)
                    ELSE cfg.ip_address,
     interval |-> OverrideParsed(cfg.interval, e.interval,
                                 ParseUnsigned(e.interval.val)),
     max_attempt |-> OverrideParsed(cfg.max_attempt, e.max_attempt,
                                    ParseUnsigned(e.max_attempt.val)),
     auto_login |-> OverrideParsed(cfg.auto_login, e.auto_login,
                                   ParseBool(e.auto_login.val))]

\* A YAML document: for each key, its value or NoneOpt when the key is
\* missing.
NoDoc == [username |-> NoneOpt, password |-> NoneOpt, ip_address |-> NoneOpt,
          interval |-> NoneOpt, max_attempt |-> NoneOpt,
          auto_login |-> NoneOpt]

\* config.rs:9-21, 116: serde_yaml::to_string; the Option fields are skipped
\* when None
Serialize(cfg) ==
    [username |-> Some(cfg.username),
     password |-> cfg.password,
     ip_address |-> cfg.ip_address,
     interval |-> Some(cfg.interval),
     max_attempt |-> Some(cfg.max_attempt),
     auto_login |-> Some(cfg.auto_login)]

\* config.rs:9-21, 40: the four fields without Option have no serde default,
\* a document without one of them does not parse
DocParses(f) ==
    /\ f.kind = "doc"
    /\ f.doc.username.some /\ f.doc.interval.some
    /\ f.doc.max_attempt.some /\ f.doc.auto_login.some

\* config.rs:40: serde_yaml::from_str of a document that parses
Deserialize(doc) ==
    [username |-> doc.username.val,
     password |-> doc.password,
     ip_address |-> doc.ip_address,
     interval |-> doc.interval.val,
     max_attempt |-> doc.max_attempt.val,
     auto_login |-> doc.auto_login.val]

\* config.rs:75-76, 103-104: the migration is attempted
MigrationAttempted(cfg) ==
    cfg.password.some /\ cfg.password.val # "" /\ cfg.username # ""

\* The outcome of the migration: not attempted, written, or refused.
Migrate(cfg, store) ==
    IF MigrationAttempted(cfg)
    THEN LET r == CredentialManager_set_password(store, cfg.username,
                                                 cfg.password.val)
         IN  [set |-> IF r.result.ok THEN "ok" ELSE "err",
              result |-> r.result, store |-> r.store]
    ELSE [set |-> "skipped", result |-> Ok(""), store |-> store]

load_after_migration_propagate(migration, cfg) ==
    IF migration.set = "err" THEN migration.result ELSE Ok(cfg)

\* config.rs:77-89: a refused write is logged, load returns the configuration
load_after_migration(migration, cfg) == Ok(cfg)

\* config.rs:37-90
Config_load(f, e, store) ==
    IF f.kind = "absent" \/ DocParses(f)
    THEN LET base == IF f.kind = "absent" THEN Config_default
                     ELSE Deserialize(f.doc)
             cfg == ApplyEnv(base, e)
             migration == Migrate(cfg, store)
         IN  [result |-> load_after_migration(migration, cfg),
              set |-> migration.set, store |-> migration.store]
    ELSE [result |-> Err("Config", "Failed to parse YAML config"),
          set |-> "skipped", store |-> store]

config_to_save_keep(cfg, set) == cfg

config_to_save_omit(cfg, set) == [cfg EXCEPT !.password = NoneOpt]

\* config.rs:98-114: the copy that is written
config_to_save(cfg, set) ==
    IF set = "ok" THEN [cfg EXCEPT !.password = NoneOpt] ELSE cfg

\* Outcomes of the file system calls of save.
FsOutcomes == {"ok", "create_dir_all", "write"}

\* config.rs:92-121.  `self` is the configuration after the call.
Config_save(cfg, f, store, fs) ==
    IF fs = "create_dir_all"
    THEN [result |-> Err("Io", "create_dir_all"), set |-> "skipped",
          store |-> store, file |-> f, self |-> cfg]
    ELSE LET migration == Migrate(cfg, store)
         IN  [result |-> IF fs = "write" THEN Err("Io", "write") ELSE Ok(""),
              set |-> migration.set,
              store |-> migration.store,
              file |-> IF fs = "write" THEN f
                       ELSE [kind |-> "doc",
                             doc |-> Serialize(config_to_save(cfg,
                                                              migration.set))],
              self |-> cfg]

(***************************************************************************)
(* Portal operations: what each returns for each outcome of its request.   *)
(***************************************************************************)
\* A response body is a sequence of characters; "success" abbreviates the
\* seven letters of the sentinel, "x" any other non-blank character.
Whitespace == {" ", "\n"}
Bodies == { <<>>, <<"success">>, <<" ", "success", "\n">>, <<"\n">>,
            <<"x">>, <<"success", " ", "x">> }

RECURSIVE TrimStart(_)
TrimStart(s) ==
    IF s # <<>> /\ Head(s) \in Whitespace THEN TrimStart(Tail(s)) ELSE s

RECURSIVE TrimEnd(_)
TrimEnd(s) ==
    IF s # <<>> /\ s[Len(s)] \in Whitespace
    THEN TrimEnd(SubSeq(s, 1, Len(s) - 1))
    ELSE s

\* str::trim
Trim(s) == TrimEnd(TrimStart(s))

HttpStatuses == {200, 204, 403, 500}
is_success_only_200(status) == status = 200

\* reqwest StatusCode::is_success: 200-299
is_success(status) == status >= 200 /\ status <= 299

\* Outcome of a request: a transport error from send(), or a response whose
\* body then reads or fails to read.
SendError == [kind |-> "send_error", status |-> 0, body |-> <<>>]
Response(st, b) == [kind |-> "response", status |-> st, body |-> b]
BodyError(st) == [kind |-> "body_error", status |-> st, body |-> <<>>]

ProbeOutcomes ==
    {SendError} \cup {Response(st, b) : st \in {200, 500}, b \in Bodies}
                \cup {BodyError(200)}
HeartbeatOutcomes == {SendError} \cup {Response(st, <<>>) : st \in HttpStatuses}
LoginOutcomes ==
    {SendError} \cup {Response(st, <<"x">>) : st \in HttpStatuses}
                \cup {BodyError(200)}

\* What was on the wire, for the properties: the response was a 200 whose
\* body is the sentinel between blanks; the response had a 2xx status.
SentinelResponse(outcome) ==
    /\ outcome.kind = "response"
    /\ outcome.status = 200
    /\ outcome.body \in {<<"success">>, <<" ", "success", "\n">>}
SuccessResponse(outcome) ==
    outcome.kind # "send_error" /\ outcome.status \in 200..299

\* client.rs:121-131
check_internet(outcome) ==
    IF outcome.kind = "response" THEN Trim(outcome.body) = <<"success">> ELSE FALSE

heartbeat_propagate(outcome) ==
    IF outcome.kind = "send_error" THEN Err("Network", "send")
    ELSE Ok(is_success(outcome.status))

\* client.rs:104-118: Result<bool>, always Ok
heartbeat(outcome) ==
    IF outcome.kind = "send_error" THEN Ok(FALSE)
    ELSE Ok(is_success(outcome.status))

CredentialsMissing_username_only(username, password) == username = ""

\* client.rs:58
CredentialsMissing(username, password) == username = "" \/ password = ""

MissingCredentials == Err("AuthFailed", "Missing credentials")

\* client.rs:74-94: the result of login once its POST has an outcome
login_result(outcome) ==
    IF outcome.kind = "send_error" THEN Err("Network", "send")
    ELSE IF is_success(outcome.status)
    THEN IF outcome.kind = "body_error" THEN Err("Network", "body") ELSE Ok("")
    ELSE [Err("AuthFailed", "Status code") EXCEPT !.status = outcome.status]

\* client.rs:87, 92: the notification login shows for an outcome, if any
login_notification(outcome) ==
    IF outcome.kind = "send_error" THEN "none"
    ELSE IF is_success(outcome.status)
    THEN IF outcome.kind = "body_error" THEN "none" ELSE "Login Successful"
    ELSE "Login Failed"

\* client.rs:41-51: notify returns nothing; a notification that fails to
\* show is logged.  What login returns after its notification:
login_after_notify_propagate(outcome, shown) ==
    IF login_notification(outcome) # "none" /\ ~shown
    THEN Err("Notification", "show")
    ELSE login_result(outcome)

\* client.rs:87-88, 92-93
login_after_notify(outcome, shown) == login_result(outcome)

\* Whether Notification::show succeeded, where a notification is emitted.
Shown(emitted) == IF emitted THEN BOOLEAN ELSE {TRUE}

(***************************************************************************)
(* Decisions of run_loop.                                                  *)
(***************************************************************************)
Paused_never(cfg) == FALSE

\* client.rs:139
Paused(cfg) == ~cfg.auto_login

RestoredEvent_always(was) == TRUE

\* client.rs:148
RestoredEvent(was) == ~was

LostEvent_always(was) == TRUE

\* client.rs:168
LostEvent(was) == was

AttemptAllowed_inclusive(attempts, max) == attempts <= max

\* client.rs:175
AttemptAllowed(attempts, max) == attempts < max

CountAttempt_failures_only(attempts, result) ==
    IF result.ok THEN 0 ELSE attempts + 1

\* client.rs:176-179: the counter after a login attempt of the disconnected
\* branch, whatever login returned
CountAttempt(attempts, result) == attempts + 1

CountsTowardBackoff_any(site) == TRUE

\* client.rs:162-165 against 176-179: only the login of the disconnected
\* branch is followed by login_attempts += 1
CountsTowardBackoff(site) == site = "disconnected"

AfterLogin_propagate(result) ==
    IF result.ok THEN "interval_sleep" ELSE "returned"

\* client.rs:162-164, 176-178: `if let Err(e) = self.login().await` logs the
\* error; whatever login returned, the iteration goes on to its sleep
AfterLogin(result) == "interval_sleep"

\* client.rs:156-160: the match arm Ok(false) | Err(_)
HeartbeatFailed(r) == ~(r.ok /\ r.val = TRUE)

AfterBackoff_keep(attempts) == attempts

\* client.rs:184
AfterBackoff(attempts) == 0

(***************************************************************************)
(* State.                                                                  *)
(***************************************************************************)
VARIABLES
    config,          \* AuthClient.config, the loop's own copy (main.rs:130)
    keyring,         \* the OS secure store
    pc,              \* suspension point run_loop is parked at
    login_attempts,  \* run_loop local
    max_attempts,    \* run_loop local
    was_connected,   \* run_loop local
    has_internet,    \* run_loop local of the current iteration
    login,           \* the current/last call of login() in this iteration
    cyc,             \* what the current iteration has done so far
    prev,            \* summary of the previous iteration
    run,             \* summary of the run while every probe so far failed
    cycle,           \* number of completed iterations
    app,             \* the dashboard's App (tui/app.rs:15-25)
    disk,            \* max_attempt and interval in the configuration file
    cmds,            \* number of commands and file edits so far
    hist,            \* last connectivity event, and the run of login cycles
    mode,            \* run_as_daemon (main.rs:124, 132)
    file,            \* the configuration file at config_path
    env,             \* the KMITL_* environment variables
    op               \* the last Config::load / Config::save call

vars == <<config, keyring, pc, login_attempts, max_attempts, was_connected,
          has_internet, login, cyc, prev, run, cycle, app, disk, cmds,
          hist, mode, file, env, op>>

\* What the loop never touches: the process mode and the persisted
\* configuration, read before the loop starts (main.rs:107-130).
boot_vars == <<mode, file, env, op>>

Modes == {"daemon", "tui"}

\* No configuration file, no override, no call yet.
NoFile == [kind |-> "absent", doc |-> NoDoc]
NoEnv == [username |-> NoneOpt, password |-> NoneOpt, ip_address |-> NoneOpt,
          interval |-> NoneOpt, max_attempt |-> NoneOpt,
          auto_login |-> NoneOpt]
\* No successful save of a username with a password precedes.
NoSaved == [some |-> FALSE, username |-> "", password |-> ""]
NoOp == [name |-> "none", ok |-> TRUE, set |-> "skipped", fs |-> "ok",
         file |-> NoFile, self |-> Config_default, saved |-> NoSaved]

Intervals == {DefaultInterval, 60}

\* What the front-ends and the file held when an iteration began.
NoUi == [pause_req |-> FALSE, updated |-> FALSE, username |-> "",
         password |-> NoneOpt, max_attempt |-> 0, interval |-> 0]
UiNow == [pause_req |-> app.status = "Paused",
          updated |-> app.updated,
          username |-> app.username, password |-> app.password,
          max_attempt |-> disk.max_attempt, interval |-> disk.interval]

\* The observation counters stop counting at MaxCycles.
Bump(n) == IF n < MaxCycles THEN n + 1 ELSE n
Capped(n) == IF n < MaxCycles THEN n ELSE MaxCycles

NoLogin == [called |-> FALSE, site |-> "none", pre |-> 0, username |-> "",
            password |-> "", result |-> Pending, posts |-> 0,
            outcome |-> "none", http_status |-> 0]

NewCycle == [probes |-> 0, heartbeats |-> 0, login_calls |-> 0,
             restored |-> 0, lost |-> 0, login_notes |-> 0,
             cooldowns |-> 0, probed |-> FALSE, hb |-> "none",
             paused |-> FALSE, probe_sentinel |-> FALSE,
             hb_ret |-> Pending, hb_2xx |-> FALSE, ui |-> NoUi,
             show_failed |-> FALSE]

NoHist == [last_event |-> "none", streak |-> 0]

Configs ==
    [username : Usernames, password : PlainPasswords,
     ip_address : {NoneOpt},
     max_attempt : 0..MaxAttemptBound, auto_login : BOOLEAN,
     interval : {DefaultInterval}]

Keyrings == [fault : KeyringFaults, entries : KeyringEntries]

\* client.rs:133-136, after AuthClient::new (main.rs:130)
Init ==
    /\ config \in Configs
    /\ keyring \in Keyrings
    /\ pc = "loop"
    /\ login_attempts = 0
    /\ max_attempts = config.max_attempt
    /\ was_connected = TRUE
    /\ has_internet = FALSE
    /\ login = NoLogin
    /\ cyc = NewCycle
    /\ prev = [probe |-> "none", counter |-> 0]
    /\ run = [active |-> TRUE, cycles |-> 0, logins |-> 0, cooldowns |-> 0]
    /\ cycle = 0
    \* main.rs:130, 142 and tui/app.rs:28-40: the loop and the dashboard each
    \* get their own copy of the loaded configuration
    /\ app = [status |-> "Offline", username |-> config.username,
              password |-> config.password, popup |-> FALSE,
              updated |-> FALSE]
    /\ disk = [max_attempt |-> config.max_attempt,
               interval |-> config.interval]
    /\ cmds = 0
    /\ hist = NoHist
    \* main.rs:124-127: the daemon does not get here with an empty username
    /\ mode \in Modes
    /\ mode = "daemon" => config.username # ""
    /\ file = NoFile
    /\ env = NoEnv
    /\ op = NoOp

(***************************************************************************)
(* login(), as called from run_loop at `site`.  Up to its first .await:    *)
(* either it returns Missing credentials at once, or its POST is in flight.*)
(***************************************************************************)
LoginCall_detached(site, c) ==
    LET password == Config_get_password(config, keyring)
        missing == CredentialsMissing(config.username, password)
        entry == [called |-> TRUE, site |-> site, pre |-> login_attempts,
                  username |-> config.username, password |-> password,
                  result |-> IF missing THEN MissingCredentials ELSE Pending,
                  posts |-> IF missing THEN 0 ELSE 1,
                  outcome |-> "none", http_status |-> 0]
    IN  /\ login' = entry
        /\ cyc' = [c EXCEPT !.login_calls = @ + 1]
        /\ pc' = "interval_sleep"
        /\ login_attempts' =
              IF CountsTowardBackoff(site)
              THEN login_attempts + 1
              ELSE login_attempts

\* client.rs:53-77
LoginCall(site, c) ==
    LET password == Config_get_password(config, keyring)
        missing == CredentialsMissing(config.username, password)
        entry == [called |-> TRUE, site |-> site, pre |-> login_attempts,
                  username |-> config.username, password |-> password,
                  result |-> IF missing THEN MissingCredentials ELSE Pending,
                  posts |-> IF missing THEN 0 ELSE 1,
                  outcome |-> "none", http_status |-> 0]
    IN  /\ login' = entry
        /\ cyc' = [c EXCEPT !.login_calls = @ + 1]
        /\ IF missing
           THEN /\ pc' = AfterLogin(MissingCredentials)
                /\ login_attempts' =
                     IF CountsTowardBackoff(site)
                     THEN CountAttempt(login_attempts, MissingCredentials)
                     ELSE login_attempts
           ELSE /\ pc' = "login"
                /\ UNCHANGED login_attempts

(***************************************************************************)
(* Actions of run_loop.                                                    *)
(***************************************************************************)
\* client.rs:139-141
LoopPaused ==
    /\ pc = "loop"
    /\ Paused(config)
    /\ pc' = "paused_sleep"
    /\ cyc' = [cyc EXCEPT !.paused = TRUE, !.ui = UiNow]
    /\ UNCHANGED <<hist, mode, file, env, op, app, disk, cmds, config, keyring, login_attempts, max_attempts,
                   was_connected, has_internet, login, prev, run, cycle>>

\* client.rs:141-142
PausedSleepDone ==
    /\ pc = "paused_sleep"
    /\ pc' = "loop"
    /\ cycle' = Bump(cycle)
    /\ prev' = [probe |-> "none", counter |-> login_attempts]
    /\ run' = [active |-> FALSE, cycles |-> 0, logins |-> 0, cooldowns |-> 0]
    /\ cyc' = NewCycle
    /\ login' = NoLogin
    /\ UNCHANGED <<hist, mode, file, env, op, app, disk, cmds, config, keyring, login_attempts, max_attempts,
                   was_connected, has_internet>>

\* client.rs:139, 145: not paused, the probe is sent
SendProbe ==
    /\ pc = "loop"
    /\ ~Paused(config)
    /\ pc' = "check_internet"
    /\ cyc' = [cyc EXCEPT !.probes = @ + 1, !.ui = UiNow]
    /\ UNCHANGED <<hist, mode, file, env, op, app, disk, cmds, config, keyring, login_attempts, max_attempts,
                   was_connected, has_internet, login, prev, run, cycle>>

\* client.rs:147-156: probe succeeded, up to the heartbeat's send
ProbeConnected ==
    /\ pc = "check_internet"
    /\ \E outcome \in ProbeOutcomes, shown \in Shown(RestoredEvent(was_connected)) :
          /\ check_internet(outcome)
          /\ has_internet' = TRUE
          /\ cyc' = [cyc EXCEPT !.probed = TRUE,
                                !.probe_sentinel = SentinelResponse(outcome),
                                !.restored = IF RestoredEvent(was_connected)
                                             THEN @ + 1 ELSE @,
                                !.show_failed = @ \/ ~shown,
                                !.heartbeats = @ + 1]
    /\ hist' = [hist EXCEPT !.last_event = IF RestoredEvent(was_connected)
                                           THEN "restored" ELSE @]
    /\ was_connected' = TRUE
    /\ login_attempts' = 0
    /\ pc' = "heartbeat"
    /\ UNCHANGED <<mode, file, env, op, app, disk, cmds, config, keyring, max_attempts, login, prev, run, cycle>>

\* client.rs:167-183: probe failed, up to login's first await or the backoff
ProbeDisconnected ==
    /\ pc = "check_internet"
    /\ \E outcome \in ProbeOutcomes, shown \in Shown(LostEvent(was_connected)) :
          /\ ~check_internet(outcome)
          /\ has_internet' = FALSE
          /\ LET c == [cyc EXCEPT !.probed = TRUE,
                                  !.probe_sentinel = SentinelResponse(outcome),
                                  !.show_failed = @ \/ ~shown,
                                  !.lost = IF LostEvent(was_connected)
                                           THEN @ + 1 ELSE @]
             IN  IF AttemptAllowed(login_attempts, max_attempts)
                 THEN LoginCall("disconnected", c)
                 ELSE /\ pc' = "backoff"
                      /\ cyc' = [c EXCEPT !.cooldowns = @ + 1]
                      /\ UNCHANGED <<login, login_attempts>>
    /\ was_connected' = FALSE
    /\ hist' = [hist EXCEPT !.last_event = IF LostEvent(was_connected)
                                           THEN "lost" ELSE @]
    /\ UNCHANGED <<mode, file, env, op, app, disk, cmds, config, keyring, max_attempts, prev, run, cycle>>

\* client.rs:156-159: heartbeat succeeded
HeartbeatOk ==
    /\ pc = "heartbeat"
    /\ \E outcome \in HeartbeatOutcomes :
          /\ ~HeartbeatFailed(heartbeat(outcome))
          /\ cyc' = [cyc EXCEPT !.hb = "ok",
                                !.hb_ret = heartbeat(outcome),
                                !.hb_2xx = SuccessResponse(outcome)]
    /\ pc' = "interval_sleep"
    /\ UNCHANGED <<hist, mode, file, env, op, app, disk, cmds, config, keyring, login_attempts, max_attempts,
                   was_connected, has_internet, login, prev, run, cycle>>

\* client.rs:160-165: heartbeat failed, login is called
HeartbeatFail ==
    /\ pc = "heartbeat"
    /\ \E outcome \in HeartbeatOutcomes :
          /\ HeartbeatFailed(heartbeat(outcome))
          /\ LoginCall("connected",
                       [cyc EXCEPT !.hb = "failed",
                                   !.hb_ret = heartbeat(outcome),
                                   !.hb_2xx = SuccessResponse(outcome)])
    /\ UNCHANGED <<hist, mode, file, env, op, app, disk, cmds, config, keyring, max_attempts, was_connected,
                   has_internet, prev, run, cycle>>

\* client.rs:77-94, then 162-165 or 176-179: login's POST has an outcome
LoginDone ==
    /\ pc = "login"
    /\ \E outcome \in LoginOutcomes :
       \E shown \in Shown(login_notification(outcome) # "none") :
          LET r == login_after_notify(outcome, shown) IN
          /\ login' = [login EXCEPT !.result = r,
                                    !.outcome = outcome.kind,
                                    !.http_status = outcome.status]
          /\ pc' = AfterLogin(r)
          /\ cyc' = [cyc EXCEPT !.login_notes =
                        IF login_notification(outcome) = "none"
                        THEN @ ELSE @ + 1,
                                !.show_failed = @ \/ ~shown]
          /\ login_attempts' =
                IF CountsTowardBackoff(login.site)
                THEN CountAttempt(login_attempts, r)
                ELSE login_attempts
    /\ UNCHANGED <<hist, mode, file, env, op, app, disk, cmds, config, keyring, max_attempts, was_connected,
                   has_internet, prev, run, cycle>>

\* client.rs:183-184: the 60 second backoff has elapsed
BackoffDone ==
    /\ pc = "backoff"
    /\ login_attempts' = AfterBackoff(login_attempts)
    /\ pc' = "interval_sleep"
    /\ UNCHANGED <<hist, mode, file, env, op, app, disk, cmds, config, keyring, max_attempts, was_connected,
                   has_internet, login, cyc, prev, run, cycle>>

\* client.rs:188: the interval has elapsed, the iteration ends
IntervalSleepDone ==
    /\ pc = "interval_sleep"
    /\ pc' = "loop"
    /\ cycle' = Bump(cycle)
    /\ prev' = [probe |-> IF has_internet THEN "true" ELSE "false",
                counter |-> login_attempts]
    /\ run' = IF run.active /\ ~has_internet
              THEN [active |-> TRUE, cycles |-> Bump(run.cycles),
                    logins |-> Capped(run.logins + cyc.login_calls),
                    cooldowns |-> Capped(run.cooldowns + cyc.cooldowns)]
              ELSE [active |-> FALSE, cycles |-> 0, logins |-> 0,
                    cooldowns |-> 0]
    /\ cyc' = NewCycle
    /\ login' = NoLogin
    /\ hist' = [hist EXCEPT !.streak =
                    IF ~has_internet /\ cyc.login_calls = 1 /\ cyc.cooldowns = 0
                    THEN Bump(@) ELSE 0]
    /\ UNCHANGED <<mode, file, env, op, app, disk, cmds, config, keyring, login_attempts, max_attempts,
                   was_connected, has_internet>>

(***************************************************************************)
(* The dashboard (tui/app.rs), running beside the loop in the same process *)
(* (main.rs:137-142), and the configuration file.                          *)
(***************************************************************************)
loop_vars == <<config, keyring, login_attempts, max_attempts, was_connected,
               has_internet, login, cyc, prev, run, cycle>>

AppRunning == pc # "exited" /\ cmds < MaxCommands

\* tui/app.rs:112-114: all the pause command assigns
PauseEffect(a) == [a EXCEPT !.status = "Paused"]

\* tui/app.rs:112-114: "stop" | "pause"
CmdPause ==
    /\ AppRunning /\ ~app.popup
    /\ app' = PauseEffect(app)
    /\ cmds' = cmds + 1
    /\ UNCHANGED <<pc, disk>>
    /\ UNCHANGED loop_vars
    /\ UNCHANGED <<hist, boot_vars>>

\* tui/app.rs:115-117: "start" | "resume"
CmdResume ==
    /\ AppRunning /\ ~app.popup
    /\ app' = [app EXCEPT !.status = "Offline"]
    /\ cmds' = cmds + 1
    /\ UNCHANGED <<pc, disk>>
    /\ UNCHANGED loop_vars
    /\ UNCHANGED <<hist, boot_vars>>

\* tui/app.rs:103-108: "login" opens the popup
CmdLogin ==
    /\ AppRunning /\ ~app.popup
    /\ app' = [app EXCEPT !.popup = TRUE]
    /\ cmds' = cmds + 1
    /\ UNCHANGED <<pc, disk>>
    /\ UNCHANGED loop_vars
    /\ UNCHANGED <<hist, boot_vars>>

\* tui/app.rs:52-64: Enter in the popup, with what was typed in its fields
PopupSubmit ==
    /\ pc # "exited" /\ app.popup
    /\ \E new_user \in {"", "alice"}, new_pass \in {"", "new-pw"} :
          app' = IF new_user # "" /\ new_pass # ""
                 THEN [app EXCEPT !.username = new_user,
                                  !.password = Some(new_pass),
                                  !.updated = TRUE,
                                  !.popup = FALSE]
                 ELSE [app EXCEPT !.popup = FALSE]
    /\ UNCHANGED <<pc, disk, cmds>>
    /\ UNCHANGED loop_vars
    /\ UNCHANGED <<hist, boot_vars>>

\* tui/app.rs:46-48: Esc in the popup
PopupEsc ==
    /\ pc # "exited" /\ app.popup
    /\ app' = [app EXCEPT !.popup = FALSE]
    /\ UNCHANGED <<pc, disk, cmds>>
    /\ UNCHANGED loop_vars
    /\ UNCHANGED <<hist, boot_vars>>

\* tui/app.rs:99-102: "quit" | "exit" ends the process, the loop with it
CmdQuit ==
    /\ AppRunning /\ ~app.popup
    /\ pc' = "exited"
    /\ cmds' = cmds + 1
    /\ UNCHANGED <<app, disk>>
    /\ UNCHANGED loop_vars
    /\ UNCHANGED <<hist, boot_vars>>

\* tray/main.rs:170-180: the configuration file is opened in an editor and
\* changed while the service runs
EditConfigFile ==
    /\ cmds < MaxCommands
    /\ \E m \in 0..MaxAttemptBound, i \in Intervals :
          /\ disk' = [max_attempt |-> m, interval |-> i]
          /\ disk' # disk
    /\ cmds' = cmds + 1
    /\ UNCHANGED <<pc, app>>
    /\ UNCHANGED loop_vars
    /\ UNCHANGED <<hist, boot_vars>>

Next ==
    \/ LoopPaused
    \/ PausedSleepDone
    \/ SendProbe
    \/ ProbeConnected
    \/ ProbeDisconnected
    \/ HeartbeatOk
    \/ HeartbeatFail
    \/ LoginDone
    \/ BackoffDone
    \/ IntervalSleepDone

\* The loop on its own: the daemon (main.rs:132-133), or the dashboard
\* left alone.
Spec == Init /\ [][Next]_vars

FrontEndNext ==
    \/ CmdPause
    \/ CmdResume
    \/ CmdLogin
    \/ PopupSubmit
    \/ PopupEsc
    \/ CmdQuit
    \/ EditConfigFile

TuiNext == Next \/ FrontEndNext

\* The loop beside the dashboard (main.rs:135-142), with the secure store
\* empty and reachable.
InitTui ==
    /\ Init
    /\ mode = "tui"
    /\ keyring.fault = "none"
    /\ keyring.entries = [u \in Usernames |-> NoneOpt]
    /\ config.password \in {NoneOpt, Some("plain-pw")}

SpecTui == InitTui /\ [][TuiNext]_vars

(***************************************************************************)
(* The persisted configuration as the processes meet it: the file, the     *)
(* environment and the secure store.                                       *)
(***************************************************************************)
\* Documents a file can hold; their interval, max_attempt and auto_login
\* differ from the defaults.
FileInterval == 120
FileMaxAttempt == 1
Docs ==
    [username : {Some(u) : u \in Usernames},
     password : PlainPasswords,
     ip_address : {NoneOpt},
     interval : {Some(FileInterval)},
     max_attempt : {Some(FileMaxAttempt)},
     auto_login : {Some(FALSE)}]

\* A document that lacks a required key.
DocWithoutInterval ==
    [username |-> Some("alice"), password |-> Some("plain-pw"),
     ip_address |-> NoneOpt, interval |-> NoneOpt,
     max_attempt |-> Some(FileMaxAttempt), auto_login |-> Some(FALSE)]

Garbage == [kind |-> "garbage", doc |-> NoDoc]
Files ==
    {NoFile, Garbage, [kind |-> "doc", doc |-> DocWithoutInterval]}
        \cup {[kind |-> "doc", doc |-> d] : d \in Docs}

Envs ==
    [username : {NoneOpt, Some(""), Some("alice")},
     password : {NoneOpt, Some("env-pw")},
     ip_address : {NoneOpt, Some("10.0.0.9")},
     interval : {NoneOpt, Some(<<"6", "0">>), Some(<<"6", "0", "s">>)},
     max_attempt : {NoneOpt, Some(<<"+", "3">>), Some(<<"-", "1">>)},
     auto_login : {NoneOpt, Some("true"), Some("yes")}]

\* The loop has not started.
NotStarted ==
    /\ login_attempts = 0
    /\ max_attempts = 0
    /\ was_connected = TRUE
    /\ has_internet = FALSE
    /\ login = NoLogin
    /\ cyc = NewCycle
    /\ prev = [probe |-> "none", counter |-> 0]
    /\ run = [active |-> TRUE, cycles |-> 0, logins |-> 0, cooldowns |-> 0]
    /\ cycle = 0
    /\ app = [status |-> "Offline", username |-> "", password |-> NoneOpt,
              popup |-> FALSE, updated |-> FALSE]
    /\ disk = [max_attempt |-> 0, interval |-> 0]
    /\ cmds = 0
    /\ hist = NoHist
    /\ op = NoOp

not_started_vars ==
    <<login_attempts, max_attempts, was_connected, has_internet, login, cyc,
      prev, run, cycle, app, disk, cmds, hist>>

LoadCall(f, r) ==
    [name |-> "load", ok |-> r.result.ok, set |-> r.set, fs |-> "ok",
     file |-> f, self |-> Config_default, saved |-> op.saved]

(***************************************************************************)
(* The tray process (crates/tray): it loads the configuration when it      *)
(* starts and saves it from its menu.                                      *)
(***************************************************************************)
\* tray/main.rs:73: Config::load(&config_path).unwrap_or_default()
TrayLoad ==
    /\ pc = "tray"
    /\ LET r == Config_load(file, env, keyring)
       IN  /\ config' = IF r.result.ok THEN r.result.val ELSE Config_default
           /\ keyring' = r.store
           /\ op' = LoadCall(file, r)
    /\ UNCHANGED <<pc, mode, file, env>>
    /\ UNCHANGED not_started_vars

TraySave(cfg, fs) ==
    LET r == Config_save(cfg, file, keyring, fs)
    IN  /\ config' = r.self
        /\ file' = r.file
        /\ keyring' = r.store
        /\ op' = [name |-> "save", ok |-> r.result.ok, set |-> r.set,
                  fs |-> fs, file |-> file, self |-> cfg,
                  saved |-> IF r.result.ok /\ MigrationAttempted(cfg)
                            THEN [some |-> TRUE, username |-> cfg.username,
                                  password |-> cfg.password.val]
                            ELSE NoSaved]

\* tray/main.rs:182-185: the Auto Login item was clicked
TrayUpdateConfig ==
    /\ pc = "tray"
    /\ op.name # "none"
    /\ \E checked \in BOOLEAN, fs \in FsOutcomes :
          TraySave([config EXCEPT !.auto_login = checked], fs)
    /\ UNCHANGED <<pc, mode, env>>
    /\ UNCHANGED not_started_vars

\* tray/main.rs:170-176: Open Config creates the file when there is none
TrayOpenConfig ==
    /\ pc = "tray"
    /\ op.name # "none"
    /\ file.kind = "absent"
    /\ \E fs \in FsOutcomes : TraySave(config, fs)
    /\ UNCHANGED <<pc, mode, env>>
    /\ UNCHANGED not_started_vars

TrayNext ==
    \/ TrayLoad
    \/ TrayUpdateConfig
    \/ TrayOpenConfig

InitTray ==
    /\ pc = "tray"
    /\ mode = "tray"
    /\ config = Config_default
    /\ file \in Files
    /\ env \in Envs
    /\ keyring \in [fault : StoreFaults,
                    entries : {[u \in Usernames |-> NoneOpt]}]
    /\ NotStarted

SpecTray == InitTray /\ [][TrayNext]_vars

(***************************************************************************)
(* The service from the start of main: the configuration is loaded, then   *)
(* the loop is started or main returns.                                    *)
(***************************************************************************)
\* main.rs:71, 107-139 and client.rs:133-136
MainStart ==
    /\ pc = "main"
    /\ LET first == Config_load(file, env, keyring)
           r == Config_load(file, env, first.store)
           cfg == IF r.result.ok THEN r.result.val ELSE Config_default
       IN  /\ config' = cfg
           /\ keyring' = r.store
           /\ op' = LoadCall(file, r)
           /\ IF mode = "daemon" /\ cfg.username = ""
              THEN /\ pc' = "returned"
                   /\ UNCHANGED <<max_attempts, app, disk>>
              ELSE /\ pc' = "loop"
                   /\ max_attempts' = cfg.max_attempt
                   /\ app' = [status |-> "Offline",
                              username |-> cfg.username,
                              password |-> cfg.password,
                              popup |-> FALSE, updated |-> FALSE]
                   /\ disk' = [max_attempt |-> cfg.max_attempt,
                               interval |-> cfg.interval]
    /\ UNCHANGED <<mode, file, env, login_attempts, was_connected,
                   has_internet, login, cyc, prev, run, cycle, cmds, hist>>

MainNext == MainStart \/ Next

MainFiles ==
    {NoFile, Garbage,
     [kind |-> "doc", doc |-> [DocWithoutInterval EXCEPT
                                  !.interval = Some(FileInterval),
                                  !.auto_login = Some(TRUE)]],
     [kind |-> "doc", doc |-> [DocWithoutInterval EXCEPT
                                  !.interval = Some(FileInterval)]]}

InitMain ==
    /\ pc = "main"
    /\ mode \in Modes
    /\ config = Config_default
    /\ file \in MainFiles
    /\ env \in {NoEnv, [NoEnv EXCEPT !.username = Some("alice")]}
    /\ keyring \in [fault : {"none", "entry_new"},
                    entries : {[u \in Usernames |-> NoneOpt]}]
    /\ NotStarted

SpecMain == InitMain /\ [][MainNext]_vars

\* The loop as the runtime schedules it: every sleep elapses and every
\* request ends, by its response or by the client's 10 s timeout
\* (client.rs:24), so the task always takes its next step.
SpecLive == Spec /\ WF_vars(Next)

TypeOK ==
    /\ config \in Configs
    /\ keyring \in Keyrings
    /\ pc \in {"loop", "paused_sleep", "check_internet", "heartbeat", "login",
               "backoff", "interval_sleep", "exited"}
    /\ mode \in Modes
    /\ hist.last_event \in {"none", "lost", "restored"}
    /\ hist.streak \in 0..MaxCycles
    /\ cmds \in 0..MaxCommands
    /\ app.status \in {"Offline", "Paused"}
    /\ login_attempts \in Nat
    /\ max_attempts \in Nat
    /\ was_connected \in BOOLEAN
    /\ has_internet \in BOOLEAN
    /\ cycle \in 0..MaxCycles

(***************************************************************************)
(* Properties.                                                             *)
(***************************************************************************)
EndOfCycle == pc = "interval_sleep"

\* C1: in every reachable state login_attempts is at most the configured
\* max_attempt; a login of the disconnected branch is made only with the
\* counter strictly below the bound, and otherwise (counter at the bound) the
\* cooldown branch is taken and no login is made.
C1_CounterBounded ==
    /\ login_attempts <= config.max_attempt
    /\ (login.called /\ login.site = "disconnected")
          => login.pre < config.max_attempt
    /\ (cyc.probed /\ ~has_internet)
          => \/ cyc.login_calls = 1 /\ cyc.cooldowns = 0
                /\ login.site = "disconnected"
             \/ cyc.login_calls = 0 /\ cyc.cooldowns = 1
    /\ pc = "backoff" => login_attempts = config.max_attempt

C1_Witness ==
    /\ pc = "backoff"
    /\ config.max_attempt = MaxAttemptBound
    /\ login_attempts = config.max_attempt
    /\ prev.probe = "false"

\* C2: a cycle whose probe succeeds right after a cycle whose probe failed
\* emits exactly one "Connected" (connection restored) notification; a cycle
\* whose previous observed state was already connected emits none, and so
\* does every cycle whose probe fails.
C2_RestoredOncePerTransition ==
    /\ cyc.restored = IF cyc.probed /\ has_internet /\ prev.probe = "false"
                      THEN 1 ELSE 0
    /\ (cyc.probed /\ has_internet) => was_connected

C2_Witness ==
    /\ EndOfCycle
    /\ has_internet
    /\ prev.probe = "false"
    /\ cyc.restored = 1

\* C3 (as claimed): for every max_attempt N, while every probe since start has
\* failed, the first N cycles make one login attempt each, cycle N+1 is one
\* cooldown without login that leaves the counter at 0, and cycle N+2 makes
\* the (N+1)-th login attempt.
C3_AttemptsThenOneCooldown ==
    (pc = "loop" /\ run.active) =>
        LET k == run.cycles
            N == config.max_attempt
        IN  /\ k <= N => (run.logins = k /\ run.cooldowns = 0)
            /\ k = N + 1 => (run.logins = N /\ run.cooldowns = 1
                             /\ login_attempts = 0)
            /\ k = N + 2 => (run.logins = N + 1 /\ run.cooldowns = 1)

\* The same statement for the bounds N >= 1 only.
C3_PositiveBoundOnly ==
    config.max_attempt >= 1 => C3_AttemptsThenOneCooldown

\* C4: in a cycle whose probe succeeded and whose heartbeat failed, login() is
\* called exactly once, no "Disconnected" notification is emitted, the loop
\* stays in the connected state and the counter stays at 0, whatever login
\* returns.
C4_HeartbeatFailureStaysConnected ==
    cyc.hb = "failed" =>
        /\ has_internet
        /\ cyc.login_calls = 1
        /\ login.called /\ login.site = "connected"
        /\ cyc.lost = 0
        /\ was_connected
        /\ login_attempts = 0

C4_Witness ==
    /\ EndOfCycle
    /\ cyc.hb = "failed"
    /\ login.result.err = "AuthFailed"
    /\ login.posts = 1
    /\ prev.probe = "false"

\* C5: the counter is 0 at the end of every cycle whose probe succeeded; a
\* login attempt of the disconnected branch leaves the counter exactly 1
\* above its value before the call, whether login succeeded or failed; and
\* the counter changes in no step other than the probe's success (to 0), the
\* return of a disconnected-branch login (+1) and the end of the cooldown.
C5_CounterSteps ==
    /\ [](/\ (EndOfCycle /\ has_internet) => login_attempts = 0
          /\ (EndOfCycle /\ login.called /\ login.site = "disconnected")
                => login_attempts = login.pre + 1)
    /\ [][login_attempts' # login_attempts =>
            \/ pc = "check_internet" /\ has_internet' /\ login_attempts' = 0
            \/ /\ pc \in {"check_internet", "login"}
               /\ pc' = "interval_sleep"
               /\ login'.site = "disconnected"
               /\ login_attempts' = login_attempts + 1
            \/ pc = "backoff"]_vars

C5_Witness ==
    /\ EndOfCycle
    /\ login.called /\ login.site = "disconnected"
    /\ login.result.ok
    /\ login.pre = 1
    /\ login_attempts = 2

\* C6 (as claimed): right after any login() that returns success the counter
\* is 0.
C6_ZeroAfterLoginSuccess ==
    (EndOfCycle /\ login.called /\ login.result.ok) => login_attempts = 0

\* C6 (amended): right after a login() that returns success the counter is 0
\* in the connected branch; in the disconnected branch it is not reset but is
\* 1 above its value before the call.
C6_AfterLoginSuccess ==
    (EndOfCycle /\ login.called /\ login.result.ok) =>
        /\ login.site = "connected" => login_attempts = 0
        /\ login.site = "disconnected" => login_attempts = login.pre + 1

C6_Witness ==
    /\ EndOfCycle
    /\ login.called /\ login.result.ok
    /\ login.site = "disconnected"
    /\ login_attempts = 1

\* C7 (as claimed): from one failing-probe cycle to the next failing-probe
\* cycle the counter never decreases.
C7_MonotoneInStreak ==
    (EndOfCycle /\ ~has_internet /\ prev.probe = "false")
        => login_attempts >= prev.counter

\* C7 (amended): from one failing-probe cycle to the next the counter never
\* decreases, except in a cooldown cycle, which resets it to 0.
C7_MonotoneExceptCooldown ==
    (EndOfCycle /\ ~has_internet /\ prev.probe = "false") =>
        /\ cyc.cooldowns = 0 => login_attempts >= prev.counter
        /\ cyc.cooldowns > 0 => login_attempts = 0

C7_Witness ==
    /\ EndOfCycle
    /\ ~has_internet /\ prev.probe = "false"
    /\ cyc.cooldowns = 1
    /\ prev.counter = 2
    /\ login_attempts = 0

\* C8: a login() called while the username is empty or the resolved password
\* is empty returns the missing-credentials failure and sends no request.
C8_MissingCredentialsNoRequest ==
    (login.called /\ (config.username = "" \/ login.password = "")) =>
        /\ login.result = MissingCredentials
        /\ login.posts = 0
        /\ pc # "login"
        /\ cyc.login_notes = 0

C8_Witness ==
    /\ login.called
    /\ config.username # ""
    /\ login.password = ""
    /\ login.result = MissingCredentials
    /\ login.posts = 0

\* C9: the password login() resolves is the plaintext when that is non-empty
\* (whatever the state of the secure store), otherwise the secure store's
\* value for the username when the store yields one, otherwise the empty
\* string; it is always a string, never an error.
C9_PasswordPrecedence ==
    login.called =>
        /\ login.password \in {"", "plain-pw", "ring-pw"}
        /\ login.password =
             IF config.password.some /\ config.password.val # ""
             THEN config.password.val
             ELSE IF keyring.fault = "none"
                     /\ keyring.entries[config.username].some
             THEN keyring.entries[config.username].val
             ELSE ""

C9_Witness ==
    /\ login.called
    /\ config.password = Some("")
    /\ keyring.fault = "none"
    /\ keyring.entries[config.username].some
    /\ login.password = "ring-pw"

\* C10: while auto-login is disabled the loop sends no probe, heartbeat or
\* login request, emits no notification, and changes neither its connectivity
\* state nor the counter.
C10_PausedDoesNothing ==
    /\ [](~config.auto_login =>
            /\ cyc.probes = 0 /\ cyc.heartbeats = 0 /\ cyc.login_calls = 0
            /\ cyc.restored = 0 /\ cyc.lost = 0 /\ cyc.login_notes = 0
            /\ ~login.called
            /\ pc \in {"loop", "paused_sleep", "exited"})
    /\ [][~config.auto_login =>
            /\ was_connected' = was_connected
            /\ login_attempts' = login_attempts]_vars

C10_Witness ==
    /\ pc = "paused_sleep"
    /\ cyc.paused
    /\ cycle >= 1

\* C15 (as claimed): a "Disconnected" (connection lost) notification is
\* emitted in a cycle exactly when its probe fails and an earlier probe of
\* this run succeeded last; a failing first probe emits none.
C15_LostOnlyAfterConnected ==
    cyc.lost = IF cyc.probed /\ ~has_internet /\ prev.probe = "true"
               THEN 1 ELSE 0

\* C15 (amended): the loop starts in the connected state (was_connected =
\* true, there is no unknown state), and a "Disconnected" notification is
\* emitted in a cycle exactly when its probe fails and the previous state was
\* connected, the assumed initial state included: a failing first probe emits
\* one, a failing probe after a failing probe emits none.
C15_LostWhenWasConnected ==
    /\ (cycle = 0 /\ ~cyc.probed) => was_connected
    /\ cyc.lost = IF cyc.probed /\ ~has_internet
                      /\ prev.probe \in {"true", "none"}
                   THEN 1 ELSE 0
    /\ (cyc.probed /\ ~has_internet) => ~was_connected

C15_Witness ==
    /\ EndOfCycle
    /\ cycle = 0
    /\ ~has_internet
    /\ cyc.lost = 1
    /\ prev.probe = "none"

\* C16 (as claimed): the probe reports connectivity if and only if the
\* response has status 200 and its trimmed body is the sentinel "success".
C16_ProbeIffSentinel200 ==
    cyc.probed => (has_internet <=> cyc.probe_sentinel)

\* C17: heartbeat never returns an error; it returns true exactly when the
\* response has a 2xx status and false on any other status and on a
\* transport error.
C17_HeartbeatNeverRaises ==
    cyc.hb # "none" =>
        /\ cyc.hb_ret.ok
        /\ cyc.hb_ret.val = cyc.hb_2xx
        /\ cyc.hb = IF cyc.hb_2xx THEN "ok" ELSE "failed"

C17_Witness ==
    /\ cyc.hb = "failed"
    /\ ~cyc.hb_2xx
    /\ cyc.hb_ret = Ok(FALSE)
    /\ pc = "login"

LoginReturned == login.called /\ login.result # Pending

C11_PauseKeepsCounter ==
    /\ PauseEffect(PauseEffect(app)) = PauseEffect(app)
    /\ cyc.ui.pause_req => login_attempts = prev.counter

\* C12 (as claimed): a cycle that begins while the dashboard's pause command
\* is in force (pause issued, not yet resumed) makes no network call, and a
\* cycle that begins with no pause in force and auto-login enabled probes.
C12_PauseReachesLoop ==
    /\ cyc.ui.pause_req =>
          (cyc.probes = 0 /\ cyc.heartbeats = 0 /\ login.posts = 0)
    /\ (cyc.paused /\ config.auto_login) => cyc.ui.pause_req

\* C13 (as claimed): in every cycle the attempt bound the loop compares the
\* counter with, and the interval it sleeps, are the values the
\* configuration held when the cycle began.
C13_NoCachedBound ==
    cyc.probes = 1 =>
        /\ max_attempts = cyc.ui.max_attempt
        /\ config.interval = cyc.ui.interval

\* C14 (as claimed): once the login popup has been submitted with a
\* non-empty username and password, every login of a later cycle uses that
\* username and that password.
C14_NewCredentialsUsed ==
    (/\ login.called
     /\ cyc.ui.updated
     /\ cyc.ui.username = app.username
     /\ cyc.ui.password = app.password)
        => /\ login.username = app.username
           /\ login.password = app.password.val

\* C19: whatever probe, heartbeat, login and credential resolution return,
\* the loop stays inside its iteration and always has a next step: no error
\* leaves run_loop, and after every cycle another one begins.
C19_LoopNeverStops ==
    /\ pc \in {"loop", "paused_sleep", "check_internet", "heartbeat",
               "login", "backoff", "interval_sleep"}
    /\ ENABLED Next
    /\ (EndOfCycle /\ login.called) => login.result # Pending

C19_Witness ==
    /\ EndOfCycle
    /\ cycle >= 1
    /\ login.site = "disconnected"
    /\ login.result.err = "Network"
    /\ keyring.fault = "get_password"

\* C20 (as claimed): for every max_attempt, if the loop is never paused and
\* every probe fails, login is attempted again and again without end.
C20_RetriesForever ==
    ([]config.auto_login /\ [](cyc.probed => ~has_internet))
        => []<>login.called

\* The same statement for the bounds max_attempt >= 1 only.
C20_PositiveBoundOnly ==
    ([](config.auto_login /\ config.max_attempt >= 1)
        /\ [](cyc.probed => ~has_internet))
        => []<>login.called

\* Requests sent and not yet completed in the current iteration.
InFlight ==
    (cyc.probes - (IF cyc.probed THEN 1 ELSE 0))
    + (cyc.heartbeats - (IF cyc.hb # "none" THEN 1 ELSE 0))
    + (login.posts - (IF login.outcome # "none" THEN 1 ELSE 0))

\* C25: at most one portal request is in flight at any time, and only while
\* the loop is parked at that request; in a cycle the probe has completed
\* before the heartbeat or login is sent, the heartbeat has completed before
\* the login is sent, and the cycle ends (its sleep starts, and with it the
\* next cycle) only with every request of the cycle completed.
C25_OneRequestAtATime ==
    /\ InFlight \in {0, 1}
    /\ InFlight = 1 <=> pc \in {"check_internet", "heartbeat", "login"}
    /\ cyc.probes <= 1 /\ cyc.heartbeats <= 1 /\ login.posts <= 1
    /\ cyc.heartbeats > 0 => cyc.probed
    /\ login.called => (cyc.probed /\ (cyc.heartbeats > 0 => cyc.hb # "none"))
    /\ pc = "loop" => (cyc.probes = 0 /\ cyc.heartbeats = 0 /\ login.posts = 0)

C25_Witness ==
    /\ pc = "login"
    /\ InFlight = 1
    /\ cyc.probed /\ cyc.hb = "failed"
    /\ login.posts = 1
    /\ cycle >= 1

\* C27: in a cycle in which a notification failed to show, login returns
\* what its request's outcome alone determines (Ok exactly on a 2xx response
\* that was read), the connectivity state is the probe's result, and the
\* counter is 0 after a successful probe and one more than before after a
\* login of the disconnected branch: all as when every notification shows.
C27_NotificationFailureIgnored ==
    cyc.show_failed =>
        /\ (LoginReturned /\ login.posts = 1) =>
              /\ login.result.ok <=> (login.outcome = "response"
                                      /\ login.http_status \in 200..299)
              /\ ~login.result.ok => login.result.err \in {"Network", "AuthFailed"}
        /\ cyc.probed => was_connected = has_internet
        /\ (EndOfCycle /\ has_internet) => login_attempts = 0
        /\ (EndOfCycle /\ login.called /\ login.site = "disconnected")
              => login_attempts = login.pre + 1
        /\ pc \in {"heartbeat", "login", "backoff", "interval_sleep"}

C27_Witness ==
    /\ EndOfCycle
    /\ cyc.show_failed
    /\ cyc.lost = 0 /\ cyc.restored = 0
    /\ login.site = "disconnected"
    /\ login.http_status = 403
    /\ login.result.err = "AuthFailed"

\* C29: connectivity events alternate: a "Disconnected" event is never
\* emitted when the last event emitted was "Disconnected", a "Connected"
\* event never when the last was "Connected"; a cycle emits at most one
\* event, and a paused cycle emits none.
C29_EventsAlternate ==
    /\ [](/\ cyc.lost + cyc.restored <= 1
          /\ cyc.paused => (cyc.lost = 0 /\ cyc.restored = 0))
    /\ [][/\ cyc'.lost > cyc.lost =>
                (hist.last_event # "lost" /\ hist'.last_event = "lost")
          /\ cyc'.restored > cyc.restored =>
                (hist.last_event # "restored"
                 /\ hist'.last_event = "restored")
          /\ (cyc'.lost <= cyc.lost /\ cyc'.restored <= cyc.restored) =>
                hist'.last_event = hist.last_event]_vars

C29_Witness ==
    /\ EndOfCycle
    /\ cyc.lost = 1
    /\ prev.probe = "true"
    /\ hist.last_event = "lost"
    /\ cycle >= 3

\* C30: the cooldown is entered only when exactly the max_attempt cycles
\* immediately before it each had a failing probe and a login attempt, with
\* no successful probe and no cooldown among them; at the start of every
\* cycle the counter is the length of that run of cycles, so a cycle with a
\* successful probe (its heartbeat-failure login included) restarts it at 0.
C30_CooldownOnlyAfterFullRun ==
    /\ pc = "backoff" => hist.streak = config.max_attempt
    /\ pc = "loop" => login_attempts = hist.streak
    /\ (pc = "loop" /\ prev.probe = "true") => hist.streak = 0
    /\ (EndOfCycle /\ cyc.hb = "failed") => login_attempts = 0

C30_Witness ==
    /\ pc = "backoff"
    /\ hist.streak = MaxAttemptBound
    /\ config.max_attempt = MaxAttemptBound
    /\ hist.last_event = "lost"
    /\ cycle > MaxAttemptBound

\* C26 (as claimed): the quit command never ends the loop while a heartbeat
\* or login request is in flight; the loop stops with every such request
\* completed.
C26_QuitWaitsForRequest ==
    pc = "exited" =>
        /\ cyc.heartbeats = 1 => cyc.hb # "none"
        /\ login.posts = 1 => login.outcome # "none"

\* The file of the last call was there to be parsed, or was not there.
FileLoads(f) ==
    \/ f.kind = "absent"
    \/ /\ f.kind = "doc"
       /\ f.doc.username.some /\ f.doc.interval.some
       /\ f.doc.max_attempt.some /\ f.doc.auto_login.some

\* C21: load succeeds exactly when the file is absent or parses, and save
\* exactly when its file system calls succeed, whether the secure store
\* accepted the password, refused it or was not asked; after a call in which
\* the store refused it, get_password on the configuration in memory still
\* returns the plaintext password.
C21_StoreErrorNeverFailsPersistence ==
    /\ op.name = "load" => (op.ok <=> FileLoads(op.file))
    /\ op.name = "save" => (op.ok <=> op.fs = "ok")
    /\ op.set = "err" =>
          /\ op.name = "load" => op.ok
          /\ config.password.some /\ config.password.val # ""
          /\ Config_get_password(config, keyring) = config.password.val

C21_Witness ==
    /\ op.name = "load"
    /\ op.ok
    /\ op.set = "err"
    /\ keyring.fault = "set_password"
    /\ config.password = Some("env-pw")

\* C22: after a save that succeeded the file holds a document whose password
\* key is missing when the secure store accepted the password, and is the
\* configuration's password field when the store refused it or was not asked
\* (no password, an empty password or an empty username); the store is asked
\* exactly for a non-empty password under a non-empty username; save leaves
\* the configuration in memory as it was called.
C22_PlaintextOmittedIffMigrated ==
    op.name = "save" =>
        /\ config = op.self
        /\ op.set # "skipped" <=>
              (op.fs # "create_dir_all" /\ config.password.some
               /\ config.password.val # "" /\ config.username # "")
        /\ op.set = "ok" =>
              keyring.entries[config.username] = config.password
        /\ op.ok =>
              /\ file.kind = "doc"
              /\ file.doc.username = Some(config.username)
              /\ file.doc.auto_login = Some(config.auto_login)
              /\ file.doc.password =
                    IF op.set = "ok" THEN NoneOpt ELSE config.password
        /\ ~op.ok => file = op.file

C22_Witness ==
    /\ op.name = "save"
    /\ op.ok
    /\ op.set = "ok"
    /\ config.password = Some("plain-pw")
    /\ file.kind = "doc" /\ ~file.doc.password.some

\* C28: a load never fails on account of an override, and in the
\* configuration it returns each field is its override when that is set (and,
\* for interval, max_attempt and auto_login, parses), otherwise the value of
\* the file, or the default when there is no file, whatever the other
\* overrides are.
C28_EnvOverridesIndependent ==
    op.name = "load" =>
        /\ op.ok <=> FileLoads(op.file)
        /\ op.ok =>
            LET absent == op.file.kind = "absent"
                doc == op.file.doc
            IN  /\ config.username =
                      IF env.username.some THEN env.username.val
                      ELSE IF absent THEN "" ELSE doc.username.val
                /\ config.password =
                      IF env.password.some THEN env.password
                      ELSE IF absent THEN NoneOpt ELSE doc.password
                /\ config.ip_address =
                      IF env.ip_address.some THEN env.ip_address
                      ELSE IF absent THEN NoneOpt ELSE doc.ip_address
                /\ config.interval =
                      IF env.interval = Some(<<"6", "0">>) THEN 60
                      ELSE IF absent THEN 300 ELSE doc.interval.val
                /\ config.max_attempt =
                      IF env.max_attempt = Some(<<"+", "3">>) THEN 3
                      ELSE IF absent THEN 20 ELSE doc.max_attempt.val
                /\ config.auto_login =
                      IF env.auto_login = Some("true") THEN TRUE
                      ELSE IF absent THEN TRUE ELSE doc.auto_login.val

C28_Witness ==
    /\ op.name = "load"
    /\ op.ok
    /\ op.file.kind = "doc"
    /\ env.username = Some("")
    /\ env.interval = Some(<<"6", "0">>)
    /\ env.max_attempt = Some(<<"-", "1">>)
    /\ env.auto_login = Some("yes")
    /\ config.interval = 60
    /\ config.max_attempt = FileMaxAttempt
    /\ ~config.auto_login

\* C23 (as claimed): when the configuration file does not parse, the process
\* goes on with the default configuration and the loop starts, in daemon
\* mode as in dashboard mode.
C23_MalformedConfigLoopStarts ==
    (op.name = "load" /\ ~op.ok) =>
        /\ config = Config_default
        /\ pc # "returned"

\* C24 (as claimed): while the configured username is empty no heartbeat
\* request and no login request is sent, in daemon mode and in dashboard
\* mode.
C24_NoRequestWithoutUsername ==
    config.username = "" => (cyc.heartbeats = 0 /\ login.posts = 0)

\* The same statement for daemon mode only.
C24_DaemonOnly ==
    mode = "daemon" => C24_NoRequestWithoutUsername

\* A load that follows a successful save of a non-empty password under a
\* non-empty username, with no environment override.
LoadedAfterSave == op.name = "load" /\ op.saved.some /\ env = NoEnv

\* C31 (as claimed): after a successful save of a non-empty password under a
\* non-empty username the document holds the plaintext or the secure store
\* holds it under that username, and a load of the saved document followed
\* by get_password returns that password, the store being in the state it
\* was in during the save.
C31_SavedPasswordSurvives ==
    /\ (op.name = "save" /\ op.saved.some) =>
          \/ file.doc.password = Some(op.saved.password)
          \/ keyring.entries[op.saved.username] = Some(op.saved.password)
    /\ LoadedAfterSave =>
          /\ op.ok
          /\ Config_get_password(config, keyring) = op.saved.password

\* C31 (amended): after such a save the document holds the plaintext or the
\* secure store holds it under that username, never both missing; a load of
\* the saved document followed by get_password returns that password
\* whenever the store's reads work, and the empty string when the store
\* accepted the write but its reads fail: the store holds the password, the
\* document no longer does.
C31_SavedPasswordSurvivesReadableStore ==
    /\ (op.name = "save" /\ op.saved.some) =>
          \/ file.doc.password = Some(op.saved.password)
          \/ keyring.entries[op.saved.username] = Some(op.saved.password)
    /\ LoadedAfterSave =>
          /\ op.ok
          /\ config.username = op.saved.username
          /\ keyring.fault # "get_password" =>
                Config_get_password(config, keyring) = op.saved.password
          /\ keyring.fault = "get_password" =>
                /\ config.password = NoneOpt
                /\ keyring.entries[config.username] = Some(op.saved.password)
                /\ Config_get_password(config, keyring) = ""

C31_Witness ==
    /\ LoadedAfterSave
    /\ keyring.fault = "none"
    /\ config.username = "alice"
    /\ config.password = NoneOpt
    /\ keyring.entries["alice"] = Some("plain-pw")
    /\ Config_get_password(config, keyring) = "plain-pw"

====
